---- MODULE Spec2Model ----
(***************************************************************************)
(* Seat-lock reservation engine of the event ticketing backend             *)
(* (src/admin.js): the seat_locks / done_seatlocks stores, the hold        *)
(* endpoint POST /api/locks/hold, the lock view GET /api/locks, order      *)
(* creation POST /api/orders/create-checkout and the payment webhook       *)
(* POST /api/payment/webhook.                                              *)
(*                                                                         *)
(* The event id is the literal 'default' everywhere in the source, so rows *)
(* carry no event_id field.  seat_locks.created_at is written but never    *)
(* read by any statement and is not part of the rows below.                *)
(***************************************************************************)
EXTENDS Integers, Sequences, FiniteSets, TLC

(***************************** bounds **************************************)
\* seat numbers of the one-seat hold requests range over -1..MaxSeatNo
MaxSeatNo == 1
\* the clock NOW() runs over 0..MaxTime
MaxTime == 2
\* ttlSec of a hold request ranges over 0..MaxTtl (0 is the invalid one)
MaxTtl == 1
\* holds granted plus checkouts committed in one run
MaxOps == 2
\* number of hold ids the server generates in one run
MaxGen == 1
\* longest item list of a checkout
MaxItems == 1
\* seat numbers of checkout items range over 0..MaxItemSeat
MaxItemSeat == 1
\* keys of a seat list given to a seat-key function on its own
MaxPureLen == 3

(************************* program constants *******************************)
\* seats of a table; seat_no = 0 stands for the whole table
TableSize == 10
\* hold ids a client may invent are 1..NumClientIds; generated ones follow GenBase
NumClientIds == 2
GenBase == 10
\* holdId absent from the request body (undefined / empty: falsy in JS)
NoHold == 0

TableIds == <<"A", "B">>
Tables == {TableIds[i] : i \in 1..Len(TableIds)}
OrderRefs == {"O1", "O2"}

VARIABLES
    seat_locks,      \* rows of table seat_locks: [tableId, seatNo, holdId, expiresAt]
    done_seatlocks,  \* rows of table done_seatlocks: [orderId, tableId, seatNo]
    orders,          \* order_ref -> [status, hold_id, ipg_tx_id, items]
    now,             \* the clock: Date.now() and SQL NOW()
    res,             \* the response of the last request served
    nOps,            \* holds granted and checkouts committed so far
    nGen,            \* hold ids generated so far
    nextTx,          \* transaction ids issued by the payment gateway so far
    tx,              \* hold transactions in flight, per connection
    call             \* a seat-key function run on its own: [fn, arg, val]

vars == <<seat_locks, done_seatlocks, orders, now, res, nOps, nGen, nextTx, tx, call>>

SeatKey(t, n) == [tableId |-> t, seatNo |-> n]

KeyOf(r) == SeatKey(r.tableId, r.seatNo)

\* the unique key of seat_locks and of done_seatlocks rows,
\* (event_id, table_id, seat_no): event_id is always "default"
UniqueKey(r) == SeatKey(r.tableId, r.seatNo)

Range(seq) == {seq[i] : i \in 1..Len(seq)}

\* rows of a result set, in the (unspecified) order the store returns them
RECURSIVE RowsOf(_)
RowsOf(S) ==
    IF S = {} THEN <<>>
    ELSE LET r == CHOOSE x \in S : TRUE IN <<r>> \o RowsOf(S \ {r})

\* Array.prototype.flatMap over a sequence
RECURSIVE FlatMap(_, _)
FlatMap(F(_), seq) ==
    IF seq = <<>> THEN <<>> ELSE F(Head(seq)) \o FlatMap(F, Tail(seq))

(********************* Seat Key Model: normalizeGroups *********************)
\* keys of the Map byTable, in insertion order (first occurrence of a table)
RECURSIVE TableOrder(_, _)
TableOrder(seats, acc) ==
    IF seats = <<>> THEN acc
    ELSE LET t == Head(seats).tableId
         IN  TableOrder(Tail(seats),
                        IF t \in Range(acc) THEN acc ELSE Append(acc, t))

\* byTable.get(t): the seat numbers sent for table t, in request order
byTable(seats, t) ==
    LET sel == SelectSeq(seats, LAMBDA s : s.tableId = t)
    IN  [i \in 1..Len(sel) |-> sel[i].seatNo]

\* a sort with the comparator turned round
RECURSIVE SortDesc(_)
SortDesc(S) ==
    IF S = {} THEN <<>>
    ELSE LET m == CHOOSE x \in S : \A y \in S : x >= y
         IN  <<m>> \o SortDesc(S \ {m})

\* Array.from(new Set(arr)).sort((a, b) => a - b)
RECURSIVE SortAsc(_)
SortAsc(S) ==
    IF S = {} THEN <<>>
    ELSE LET m == CHOOSE x \in S : \A y \in S : x <= y
         IN  <<m>> \o SortAsc(S \ {m})

\* a classification that knows the sentinel 0 only
isFullZeroOnly(nums) == 0 \in Range(nums)

\* a classification that knows the ten seats only
isFullTenSeatsOnly(nums) ==
    /\ Len(nums) = TableSize
    /\ \A i \in 1..Len(nums) : nums[i] = i

isFull(nums) ==
    \/ 0 \in Range(nums)
    \/ /\ Len(nums) = TableSize
       /\ \A i \in 1..Len(nums) : nums[i] = i

\* a partial group that keeps every number that is not the sentinel
normalizeGroupUnfiltered(tableId, arr) ==
    LET nums == SortAsc(Range(arr))
    IN  IF isFull(nums)
        THEN [tableId |-> tableId, mode |-> "full", seats |-> <<0>>]
        ELSE [tableId |-> tableId, mode |-> "partial", seats |-> nums]

normalizeGroup(tableId, arr) ==
    LET nums == SortAsc(Range(arr))
    IN  IF isFull(nums)
        THEN [tableId |-> tableId, mode |-> "full", seats |-> <<0>>]
        ELSE [tableId |-> tableId, mode |-> "partial",
              seats |-> SelectSeq(nums, LAMBDA n : n > 0)]

normalizeGroups(seats) ==
    LET order == TableOrder(seats, <<>>)
    IN  [i \in 1..Len(order) |-> normalizeGroup(order[i], byTable(seats, order[i]))]

\* the seat keys a list of groups resolves to (response field seats)
GroupKeys(g) == [i \in 1..Len(g.seats) |-> SeatKey(g.tableId, g.seats[i])]

resolvedSeats(groups) == FlatMap(GroupKeys, groups)

(********************* Lock View Builder: expand ***************************)
\* an expansion that numbers the seats of a table from 0
expandRowFromZero(r) ==
    IF r.seatNo = 0
    THEN [i \in 1..TableSize |-> SeatKey(r.tableId, i - 1)]
    ELSE <<SeatKey(r.tableId, r.seatNo)>>

expandRow(r) ==
    IF r.seatNo = 0
    THEN [i \in 1..TableSize |-> SeatKey(r.tableId, i)]
    ELSE <<SeatKey(r.tableId, r.seatNo)>>

expand(rows) == FlatMap(expandRow, rows)

(********************* Reservation Engine: conflict checks *****************)
\* a full-table check that looks only for a table sold as a whole
paidAnyWholeOnly(done, tableId) == {r \in done : r.tableId = tableId /\ r.seatNo = 0}

\* SELECT 1 FROM done_seatlocks WHERE table_id = ?
paidAny(done, tableId) == {r \in done : r.tableId = tableId}

\* a full-table check that looks only at the whole-table hold
tmpAnyWholeOnly(locks, tableId, clock) ==
    {r \in locks : r.tableId = tableId /\ r.seatNo = 0 /\ r.expiresAt > clock}

\* SELECT ... FROM seat_locks WHERE table_id = ? AND expires_at > NOW()
tmpAny(locks, tableId, clock) ==
    {r \in locks : r.tableId = tableId /\ r.expiresAt > clock}

\* a full-table check that takes no hold for a conflict
tmpConflictNever(rows, holdId) == FALSE

\* (tmpAny || []).some((r) => r.hold_id !== holdId)
tmpConflict(rows, holdId) == \E r \in rows : r.holdId # holdId

\* WHERE (table_id = ? AND seat_no = 0) OR (table_id, seat_no) IN (pairs)
MatchesPartial(r, g) ==
    \/ r.tableId = g.tableId /\ r.seatNo = 0
    \/ \E i \in 1..Len(g.seats) : r.tableId = g.tableId /\ r.seatNo = g.seats[i]

\* a partial check that forgets the table sold as a whole
paidRowsExactOnly(done, g) ==
    {r \in done : \E i \in 1..Len(g.seats) : r.tableId = g.tableId /\ r.seatNo = g.seats[i]}

paidRows(done, g) == {r \in done : MatchesPartial(r, g)}

\* a partial check that takes every hold of the table for a conflict
tmpRowsWholeTable(locks, g, clock) ==
    {r \in locks : r.expiresAt > clock /\ r.tableId = g.tableId}

\* a partial check that forgets to compare expires_at with NOW()
tmpRowsNoExpiry(locks, g, clock) == {r \in locks : MatchesPartial(r, g)}

\* a partial check that forgets the table held as a whole
tmpRowsSeatsOnly(locks, g, clock) ==
    {r \in locks : /\ r.expiresAt > clock
                   /\ \E i \in 1..Len(g.seats) :
                          r.tableId = g.tableId /\ r.seatNo = g.seats[i]}

tmpRows(locks, g, clock) ==
    {r \in locks : r.expiresAt > clock /\ MatchesPartial(r, g)}

\* a filter that does not let the caller's own holds through
conflictsOfAnyone(rows, holdId) == rows

\* (tmpRows || []).filter((r) => !holdId || r.holdId !== holdId)
conflictsOf(rows, holdId) ==
    {r \in rows : holdId = NoHold \/ r.holdId # holdId}

Verdict(code, message, conflicts) ==
    [code |-> code, message |-> message, conflicts |-> conflicts]

Pass == Verdict(200, "", {})

\* a loop body that looks at the holds before it looks at the allocations
checkGroupHeldFirst(g, locks, done, holdId, clock) ==
    IF g.mode = "full"
    THEN IF tmpConflict(tmpAny(locks, g.tableId, clock), holdId)
         THEN Verdict(409, "Some seats already held", {SeatKey(g.tableId, 0)})
         ELSE IF paidAny(done, g.tableId) # {}
         THEN Verdict(409, "Some seats already sold", {SeatKey(g.tableId, 0)})
         ELSE Pass
    ELSE IF g.seats = <<>>
         THEN Verdict(500, "hold_failed", {})
         ELSE IF conflictsOf(tmpRows(locks, g, clock), holdId) # {}
         THEN Verdict(409, "Some seats already held",
                      {KeyOf(r) : r \in conflictsOf(tmpRows(locks, g, clock), holdId)})
         ELSE IF paidRows(done, g) # {}
         THEN Verdict(409, "Some seats already sold",
                      {KeyOf(r) : r \in paidRows(done, g)})
         ELSE Pass

\* a store that accepts the empty pair list "IN ()" and matches no row with it
checkGroupEmptyPairs(g, locks, done, holdId, clock) ==
    IF g.mode = "full"
    THEN IF paidAny(done, g.tableId) # {}
         THEN Verdict(409, "Some seats already sold", {SeatKey(g.tableId, 0)})
         ELSE IF tmpConflict(tmpAny(locks, g.tableId, clock), holdId)
         THEN Verdict(409, "Some seats already held", {SeatKey(g.tableId, 0)})
         ELSE Pass
    ELSE IF paidRows(done, g) # {}
         THEN Verdict(409, "Some seats already sold",
                      {KeyOf(r) : r \in paidRows(done, g)})
         ELSE IF conflictsOf(tmpRows(locks, g, clock), holdId) # {}
         THEN Verdict(409, "Some seats already held",
                      {KeyOf(r) : r \in conflictsOf(tmpRows(locks, g, clock), holdId)})
         ELSE Pass

\* the body of the conflict-check loop for one group
checkGroup(g, locks, done, holdId, clock) ==
    IF g.mode = "full"
    THEN IF paidAny(done, g.tableId) # {}
         THEN Verdict(409, "Some seats already sold", {SeatKey(g.tableId, 0)})
         ELSE IF tmpConflict(tmpAny(locks, g.tableId, clock), holdId)
         THEN Verdict(409, "Some seats already held", {SeatKey(g.tableId, 0)})
         ELSE Pass
    ELSE IF g.seats = <<>>
         \* pairsSql is empty: "IN ()" is rejected by the store, execute throws
         THEN Verdict(500, "hold_failed", {})
         ELSE IF paidRows(done, g) # {}
         THEN Verdict(409, "Some seats already sold",
                      {KeyOf(r) : r \in paidRows(done, g)})
         ELSE IF conflictsOf(tmpRows(locks, g, clock), holdId) # {}
         THEN Verdict(409, "Some seats already held",
                      {KeyOf(r) : r \in conflictsOf(tmpRows(locks, g, clock), holdId)})
         ELSE Pass

\* the conflict-check loop: it returns at the first group that does not pass
RECURSIVE checkGroups(_, _, _, _, _)
checkGroups(groups, locks, done, holdId, clock) ==
    IF groups = <<>> THEN Pass
    ELSE LET v == checkGroup(Head(groups), locks, done, holdId, clock)
         IN  IF v.code # 200 THEN v
             ELSE checkGroups(Tail(groups), locks, done, holdId, clock)

(********************* Reservation Engine: write locks *********************)
\* an insert without the ON DUPLICATE KEY clause, on a table without the key
insertLock(locks, tableId, seatNo, holdId, expiresAt) ==
    locks \cup {[tableId |-> tableId, seatNo |-> seatNo,
                 holdId |-> holdId, expiresAt |-> expiresAt]}

\* an upsert that refreshes expires_at and leaves hold_id to the first owner
upsertLockKeepOwner(locks, tableId, seatNo, holdId, expiresAt) ==
    IF \E r \in locks : UniqueKey(r) = SeatKey(tableId, seatNo)
    THEN {IF UniqueKey(r) = SeatKey(tableId, seatNo)
          THEN [r EXCEPT !.expiresAt = expiresAt]
          ELSE r : r \in locks}
    ELSE locks \cup {[tableId |-> tableId, seatNo |-> seatNo,
                      holdId |-> holdId, expiresAt |-> expiresAt]}

\* INSERT INTO seat_locks ... ON DUPLICATE KEY UPDATE hold_id, expires_at
\* (the duplicate key is (event_id, table_id, seat_no))
upsertLock(locks, tableId, seatNo, holdId, expiresAt) ==
    IF \E r \in locks : UniqueKey(r) = SeatKey(tableId, seatNo)
    THEN {IF UniqueKey(r) = SeatKey(tableId, seatNo)
          THEN [r EXCEPT !.holdId = holdId, !.expiresAt = expiresAt]
          ELSE r : r \in locks}
    ELSE locks \cup {[tableId |-> tableId, seatNo |-> seatNo,
                      holdId |-> holdId, expiresAt |-> expiresAt]}

RECURSIVE upsertAll(_, _, _, _)
upsertAll(locks, keys, holdId, expiresAt) ==
    IF keys = <<>> THEN locks
    ELSE upsertAll(upsertLock(locks, Head(keys).tableId, Head(keys).seatNo,
                              holdId, expiresAt),
                   Tail(keys), holdId, expiresAt)

\* a write loop that first drops the rows the holdId owned before
writeLocksReplacing(locks, groups, holdId, expiresAt) ==
    upsertAll({r \in locks : r.holdId # holdId}, resolvedSeats(groups), holdId, expiresAt)

\* the write loop: seat 0 for a full group, each seat number for a partial one
writeLocks(locks, groups, holdId, expiresAt) ==
    upsertAll(locks, resolvedSeats(groups), holdId, expiresAt)

(********************* responses *******************************************)
Resp(kind, code, message, conflicts, holdId, seats, expiresAt, locks) ==
    [kind |-> kind, code |-> code, message |-> message, conflicts |-> conflicts,
     holdId |-> holdId, seats |-> seats, expiresAt |-> expiresAt, locks |-> locks]

Plain(kind, code, message) == Resp(kind, code, message, {}, NoHold, <<>>, 0, <<>>)

(********************* POST /api/locks/hold ********************************)
\* holdId || `H${Date.now()...}${Math.random()...}`: the client's id, or a fresh one
newHoldId(holdId, gen) == IF holdId # NoHold THEN holdId ELSE GenBase + gen + 1

\* new Date(Date.now() + ttlSec * 1000), in seconds
expiresAt(clock, ttlSec) == clock + ttlSec

\* a handler that goes on to the writes whatever the checks said
locksAfterHoldNoReturn(locks, groups, v, hid, exp) == writeLocks(locks, groups, hid, exp)

\* the store after the transaction of a hold request whose checks gave verdict v
locksAfterHold(locks, groups, v, hid, exp) ==
    IF v.code = 200 THEN writeLocks(locks, groups, hid, exp) ELSE locks

\* the response of a hold request whose checks gave verdict v
holdResponse(groups, v, hid, exp) ==
    IF v.code = 200
    THEN Resp("hold", 200, "", {}, hid, resolvedSeats(groups), exp, <<>>)
    ELSE Resp("hold", v.code, v.message, v.conflicts, NoHold, <<>>, 0, <<>>)

\* a validation that lets every ttlSec through
validateHoldSeatsOnly(seats, ttlSec) ==
    IF seats = <<>> THEN Plain("hold", 422, "seats[] required")
    ELSE Plain("hold", 200, "")

\* validation of the request body
validateHold(seats, ttlSec) ==
    IF seats = <<>> THEN Plain("hold", 422, "seats[] required")
    ELSE IF ttlSec <= 0 THEN Plain("hold", 422, "ttlSec invalid")
    ELSE Plain("hold", 200, "")

(********************* inputs of the hold endpoint *************************)
SeatNos == (0 - 1)..MaxSeatNo

\* the ten seats of a table, listed one by one
FullList(t) == [i \in 1..TableSize |-> SeatKey(t, i)]

\* hold requests of the engine runs: no seats, one seat of table A (seat 0 is
\* the whole table), table A seat by seat, overlapping partial sets of table A,
\* requests that span two tables, and the whole of table B in both forms
EngineLists ==
    {<<>>} \cup {<<SeatKey("A", n)>> : n \in SeatNos}
           \cup {FullList("A")}
           \cup {<<SeatKey("A", 1), SeatKey("A", 2)>>, <<SeatKey("A", 2), SeatKey("A", 3)>>,
                 <<SeatKey("B", 1), SeatKey("A", 1)>>, <<SeatKey("A", 1), SeatKey("B", 1)>>,
                 <<SeatKey("B", 1), SeatKey("A", 0 - 1)>>,
                 <<SeatKey("B", 0)>>, FullList("B")}

\* hold requests of the settlement runs
SettleLists == {<<SeatKey("A", 1)>>, <<SeatKey("A", 0)>>}

\* hold requests of the racing runs
RaceLists ==
    {<<>>, <<SeatKey("A", 1)>>, <<SeatKey("A", 1), SeatKey("A", 2)>>,
     <<SeatKey("A", 0)>>, <<SeatKey("B", 1)>>}

SeatLists == EngineLists \cup SettleLists \cup RaceLists

Ttls == 0..MaxTtl

\* NoHold, an id of the client's own, or an id the server generated earlier
ClientHoldIds(gen) == {NoHold} \cup (1..NumClientIds) \cup ((GenBase + 1)..(GenBase + gen))

\* normalizeGroups on the seat lists of the model, computed once
GroupsOf == [seats \in SeatLists |-> normalizeGroups(seats)]

\* the whole handler, run without interference: its response and the
\* seat_locks rows it leaves
requestHold(seats, ttlSec, holdId, locks, done, clock, gen) ==
    IF validateHold(seats, ttlSec).code # 200
    THEN [res |-> validateHold(seats, ttlSec), locks |-> locks]
    ELSE LET groups == GroupsOf[seats]
             hid    == newHoldId(holdId, gen)
             exp    == expiresAt(clock, ttlSec)
         IN  CHOOSE out \in {[res   |-> holdResponse(groups, v, hid, exp),
                              locks |-> locksAfterHold(locks, groups, v, hid, exp)] :
                             v \in {checkGroups(groups, locks, done, holdId, clock)}} : TRUE

RequestHold(seats, ttlSec, holdId) ==
    \E out \in {requestHold(seats, ttlSec, holdId, seat_locks, done_seatlocks, now, nGen)} :
        LET granted == out.res.code = 200
        IN  /\ granted => nOps < MaxOps
            /\ (granted /\ holdId = NoHold) => nGen < MaxGen
            /\ seat_locks' = out.locks
            /\ res' = out.res
            /\ nOps' = IF granted THEN nOps + 1 ELSE nOps
            /\ nGen' = IF granted /\ holdId = NoHold THEN nGen + 1 ELSE nGen
            /\ UNCHANGED <<done_seatlocks, orders, now, nextTx, tx, call>>

\* an invalid body is answered before seats and holdId are looked at: one
\* request stands for each kind of invalid body
HoldOver(lists) ==
    \E seats \in lists, ttlSec \in Ttls, holdId \in ClientHoldIds(nGen) :
        /\ validateHold(seats, ttlSec).code # 200 => holdId = NoHold /\ Len(seats) <= 1
        /\ RequestHold(seats, ttlSec, holdId)


(********************* GET /api/locks **************************************)
\* a listing that skips the cleanup
sweepNothing(locks, clock) == locks

\* DELETE FROM seat_locks WHERE expires_at < NOW()
sweep(locks, clock) == {r \in locks : ~(r.expiresAt < clock)}

\* a read that trusts the cleanup and does not compare expires_at again
activeTempAll(locks, clock) == locks

\* SELECT ... FROM seat_locks WHERE expires_at > NOW()
activeTemp(locks, clock) == {r \in locks : r.expiresAt > clock}

\* [...expand(temp), ...expand(paid)]
listLocks(locks, done, clock) ==
    LET temp == RowsOf(activeTemp(sweep(locks, clock), clock))
        paid == RowsOf(done)
    IN  expand(temp) \o expand(paid)

ListActive ==
    /\ seat_locks' = sweep(seat_locks, now)
    /\ res' = Resp("locks", 200, "", {}, NoHold, <<>>, 0,
                   listLocks(seat_locks, done_seatlocks, now))
    /\ UNCHANGED <<done_seatlocks, orders, now, nOps, nGen, nextTx, tx, call>>

(********************* the clock *******************************************)
Tick ==
    /\ now < MaxTime
    /\ now' = now + 1
    /\ UNCHANGED <<seat_locks, done_seatlocks, orders, res, nOps, nGen,
                   nextTx, tx, call>>

(********************* POST /api/orders/create-checkout ********************)
\* tickets is the number of rows of table tickets issued for the order
NoOrder == [status |-> "none", hold_id |-> NoHold, ipg_tx_id |-> 0, items |-> <<>>,
            tickets |-> 0]

\* the order_items row written for a request item: a VIP table uses seat_no = 0
itemRow(it) ==
    [item_type |-> IF it.type = "vipTable" THEN "vipTable" ELSE "seat",
     table_id  |-> it.tableId,
     seat_no   |-> IF it.type = "vipTable" THEN 0 ELSE it.seatNo]

itemRows(items) == [i \in 1..Len(items) |-> itemRow(items[i])]

\* the order after the committed transaction: upsert, reset items, insert items,
\* UPDATE orders SET ipg_tx_id
checkoutOrder(holdId, items, ipgId) ==
    [status |-> "pending", hold_id |-> holdId, ipg_tx_id |-> ipgId,
     items |-> itemRows(items), tickets |-> 0]

Item(ty, t, n) == [type |-> ty, tableId |-> t, seatNo |-> n]

\* checkouts of the settlement runs: seats of table A and table A as a whole
Items == {Item(ty, "A", n) : ty \in {"seat", "vipTable"}, n \in 0..MaxItemSeat}

ItemLists == UNION {[1..k -> Items] : k \in 0..MaxItems}

\* checkouts of the engine runs: one seat, or one whole table
EngineItemLists == {<<>>, <<Item("seat", "A", 1)>>, <<Item("vipTable", "A", 0)>>}

\* what the payment gateway answers: a transaction id and a redirect url, a
\* transaction id only, or no transaction id (or an HTTP error)
GatewayReplies == {"ok", "no_redirect", "no_tx"}

CreateCheckout(ref, holdId, items, gw) ==
    IF items = <<>>
    THEN /\ res' = Plain("checkout", 400, "items array is required")
         /\ UNCHANGED <<seat_locks, done_seatlocks, orders, now, nOps, nGen,
                        nextTx, tx, call>>
    ELSE IF orders[ref].status \notin {"none", "pending"}
    THEN /\ res' = Plain("checkout", 409, "Order already processed.")
         /\ UNCHANGED <<seat_locks, done_seatlocks, orders, now, nOps, nGen,
                        nextTx, tx, call>>
    ELSE IF gw = "no_tx"
    THEN \* the throw rolls the transaction back
         /\ res' = Plain("checkout", 500, "server_error")
         /\ UNCHANGED <<seat_locks, done_seatlocks, orders, now, nOps, nGen,
                        nextTx, tx, call>>
    ELSE /\ nOps < MaxOps
         \* the tickets of the order are not touched
         /\ orders' = [orders EXCEPT ![ref] =
                           [checkoutOrder(holdId, items, nextTx + 1)
                                EXCEPT !.tickets = orders[ref].tickets]]
         /\ nextTx' = nextTx + 1
         /\ nOps' = nOps + 1
         /\ res' = IF gw = "ok"
                   THEN Plain("checkout", 200, "Successfully generate checkout link")
                   ELSE Plain("checkout", 500, "server_error")
         /\ UNCHANGED <<seat_locks, done_seatlocks, now, nGen, tx, call>>

CheckoutOver(refs, holdIds, itemLists) ==
    \E ref \in refs, holdId \in holdIds, items \in itemLists, gw \in GatewayReplies :
        CreateCheckout(ref, holdId, items, gw)

(********************* POST /api/payment/webhook ***************************)
\* an upsert that hands the row to the order that comes last
insertDoneLastWins(done, orderId, tableId, seatNo) ==
    {r \in done : UniqueKey(r) # SeatKey(tableId, seatNo)}
        \cup {[orderId |-> orderId, tableId |-> tableId, seatNo |-> seatNo]}

\* an insert of a whole table (seat 0) that replaces the rows of its seats
insertDoneCollapsing(done, orderId, tableId, seatNo) ==
    IF \E r \in done : UniqueKey(r) = SeatKey(tableId, seatNo)
    THEN done
    ELSE {r \in done : seatNo # 0 \/ r.tableId # tableId}
             \cup {[orderId |-> orderId, tableId |-> tableId, seatNo |-> seatNo]}

\* INSERT INTO done_seatlocks ... ON DUPLICATE KEY UPDATE event_id = VALUES(event_id)
\* (the duplicate key is (event_id, table_id, seat_no); the update changes nothing)
insertDone(done, orderId, tableId, seatNo) ==
    IF \E r \in done : UniqueKey(r) = SeatKey(tableId, seatNo)
    THEN done
    ELSE done \cup {[orderId |-> orderId, tableId |-> tableId, seatNo |-> seatNo]}

\* the loop over the items: a final lock per seat item
RECURSIVE insertSeatItems(_, _, _)
insertSeatItems(done, orderId, items) ==
    IF items = <<>> THEN done
    ELSE LET it == Head(items)
         IN  insertSeatItems(IF it.item_type = "seat"
                             THEN insertDone(done, orderId, it.table_id, it.seat_no)
                             ELSE done,
                             orderId, Tail(items))

\* the loop over vipTables: one final lock with seat_no = 0 per VIP table
RECURSIVE insertVipTables(_, _, _)
insertVipTables(done, orderId, items) ==
    IF items = <<>> THEN done
    ELSE LET it == Head(items)
         IN  insertVipTables(IF it.item_type = "vipTable"
                             THEN insertDone(done, orderId, it.table_id, 0)
                             ELSE done,
                             orderId, Tail(items))

\* a handler that forgets the loop over vipTables
finalLocksSeatsOnly(done, orderId, items) == insertSeatItems(done, orderId, items)

\* a handler that marks the order paid and writes no final lock
finalLocksNothing(done, orderId, items) == done

finalLocks(done, orderId, items) ==
    insertVipTables(insertSeatItems(done, orderId, items), orderId, items)

\* a handler that leaves the holds of the order in place
clearHoldsNothing(locks, holdId) == locks

\* if (order.hold_id) DELETE FROM seat_locks WHERE hold_id = :holdId
clearHolds(locks, holdId) ==
    IF holdId # NoHold THEN {r \in locks : r.holdId # holdId} ELSE locks

\* SELECT * FROM orders WHERE ipg_tx_id = :lookupKey LIMIT 1 FOR UPDATE
orderOfTx(ords, txId) == {o \in OrderRefs : ords[o].status # "none" /\ ords[o].ipg_tx_id = txId}

\* the status of a webhook payload: a JSON number (1 is success)
PayloadStatuses == {0, 1, 2}

\* !webhookPayload.status is false for a status that is present and not 0
truthy(v) == v # 0

\* String(webhookPayload.status)
String(v) == CASE v = 0 -> "0" [] v = 1 -> "1" [] v = 2 -> "2"

\* the status codes of the payloads that pass the validation
StatusCodes == {String(v) : v \in {x \in PayloadStatuses : truthy(x)}}

\* INSERT INTO tickets: one ticket per seat item
ticketsOf(items) == Len(SelectSeq(items, LAMBDA it : it.item_type = "seat"))

Settled(ords, locks, done) == [orders |-> ords, locks |-> locks, done |-> done]

\* a handler without the check of order.status
settleOrderNoGuard(txId, status_code, ords, locks, done) ==
    IF orderOfTx(ords, txId) = {}
    THEN Settled(ords, locks, done)
    ELSE LET o == CHOOSE x \in orderOfTx(ords, txId) : TRUE
             order == ords[o]
         IN  IF status_code # "1"
             THEN Settled([ords EXCEPT ![o].status = "failed"],
                          clearHolds(locks, order.hold_id), done)
             ELSE Settled([ords EXCEPT ![o].status = "paid",
                                       ![o].tickets = @ + ticketsOf(order.items)],
                          clearHolds(locks, order.hold_id),
                          finalLocks(done, o, order.items))

\* a handler whose check of order.status stops at paid orders only
settleOrderPaidGuard(txId, status_code, ords, locks, done) ==
    IF orderOfTx(ords, txId) = {}
    THEN Settled(ords, locks, done)
    ELSE LET o == CHOOSE x \in orderOfTx(ords, txId) : TRUE
             order == ords[o]
         IN  IF order.status = "paid"
             THEN Settled(ords, locks, done)
             ELSE IF status_code # "1"
             THEN Settled([ords EXCEPT ![o].status = "failed"],
                          clearHolds(locks, order.hold_id), done)
             ELSE Settled([ords EXCEPT ![o].status = "paid",
                                       ![o].tickets = @ + ticketsOf(order.items)],
                          clearHolds(locks, order.hold_id),
                          finalLocks(done, o, order.items))

\* the transaction of the handler: the stores it commits
settleOrder(txId, status_code, ords, locks, done) ==
    IF orderOfTx(ords, txId) = {}
    THEN Settled(ords, locks, done)
    ELSE LET o == CHOOSE x \in orderOfTx(ords, txId) : TRUE
             order == ords[o]
         IN  IF order.status # "pending"
             THEN Settled(ords, locks, done)
             ELSE IF status_code # "1"
             THEN Settled([ords EXCEPT ![o].status = "failed"],
                          clearHolds(locks, order.hold_id), done)
             ELSE Settled([ords EXCEPT ![o].status = "paid",
                                       ![o].tickets = @ + ticketsOf(order.items)],
                          clearHolds(locks, order.hold_id),
                          finalLocks(done, o, order.items))

\* one statement of the transaction
Stmt(op, tableId, seatNo) == [op |-> op, tableId |-> tableId, seatNo |-> seatNo]

\* the statements the loop over the items runs for one item
itemStatements(it) ==
    IF it.item_type = "seat"
    THEN <<Stmt("insert_ticket", it.table_id, it.seat_no),
           Stmt("insert_done", it.table_id, it.seat_no)>>
    ELSE <<>>

\* the statement the loop over vipTables runs for one item
vipStatements(it) ==
    IF it.item_type = "vipTable" THEN <<Stmt("insert_done", it.table_id, 0)>> ELSE <<>>

clearStatements(order) ==
    IF order.hold_id # NoHold THEN <<Stmt("delete_holds", "", 0)>> ELSE <<>>

\* the statements of the transaction of a pending order, in the order in
\* which the handler awaits them
statements(order, status_code) ==
    IF status_code # "1"
    THEN <<Stmt("update_failed", "", 0)>> \o clearStatements(order)
             \o <<Stmt("commit", "", 0)>>
    ELSE <<Stmt("update_paid", "", 0), Stmt("insert_payment", "", 0),
           Stmt("select_items", "", 0)>>
             \o FlatMap(itemStatements, order.items)
             \o FlatMap(vipStatements, order.items)
             \o clearStatements(order)
             \o <<Stmt("commit", "", 0)>>

\* the stores as the transaction sees them after one statement
execute(st, o, w) ==
    CASE st.op = "update_failed" ->
             Settled([w.orders EXCEPT ![o].status = "failed"], w.locks, w.done)
      [] st.op = "update_paid" ->
             Settled([w.orders EXCEPT ![o].status = "paid"], w.locks, w.done)
      [] st.op = "insert_ticket" ->
             Settled([w.orders EXCEPT ![o].tickets = @ + 1], w.locks, w.done)
      [] st.op = "insert_done" ->
             Settled(w.orders, w.locks, insertDone(w.done, o, st.tableId, st.seatNo))
      [] st.op = "delete_holds" ->
             Settled(w.orders, clearHolds(w.locks, w.orders[o].hold_id), w.done)
      [] OTHER -> w

RECURSIVE executeAll(_, _, _)
executeAll(stmts, o, w) ==
    IF stmts = <<>> THEN w
    ELSE executeAll(Tail(stmts), o, execute(Head(stmts), o, w))

\* a catch block that leaves the statements already run in place
rollbackKeepsWrites(committed, working) == working

\* catch (e) { await conn.rollback() }: the stores are those of the last commit
rollback(committed, working) == committed

\* the statements that can throw for a delivery: those of the transaction of
\* a pending order
throwPoints(txId, status_code, ords) ==
    IF \E o \in orderOfTx(ords, txId) : ords[o].status = "pending"
    THEN 1..Len(statements(ords[CHOOSE x \in orderOfTx(ords, txId) : TRUE], status_code))
    ELSE {}

\* the transaction when statement number failAt throws (0: no statement throws)
settleOrThrow(txId, status_code, ords, locks, done, failAt) ==
    IF failAt = 0
    THEN settleOrder(txId, status_code, ords, locks, done)
    ELSE LET o == CHOOSE x \in orderOfTx(ords, txId) : TRUE
         IN  rollback(Settled(ords, locks, done),
                      executeAll(SubSeq(statements(ords[o], status_code), 1, failAt - 1),
                                 o, Settled(ords, locks, done)))

\* the stores after the handler when no statement throws: a payload without
\* a status is answered 400 before anything is read
paymentWebhook(txId, status, ords, locks, done) ==
    IF ~truthy(status)
    THEN Settled(ords, locks, done)
    ELSE settleOrder(txId, String(status), ords, locks, done)

\* the acknowledgement is sent before the order is looked up
Webhook(txId, status, failAt) ==
    IF ~truthy(status)
    THEN /\ res' = Plain("webhook", 400, "invalid_format")
         /\ UNCHANGED <<seat_locks, done_seatlocks, orders, now, nOps, nGen, nextTx, tx, call>>
    ELSE /\ res' = Plain("webhook", 200, "received")
         /\ \E out \in {settleOrThrow(txId, String(status), orders, seat_locks,
                                       done_seatlocks, failAt)} :
                /\ orders' = out.orders
                /\ seat_locks' = out.locks
                /\ done_seatlocks' = out.done
         /\ UNCHANGED <<now, nOps, nGen, nextTx, tx, call>>

PaymentWebhook ==
    \E txId \in 1..MaxOps, status \in PayloadStatuses :
        \E failAt \in {0} \cup (IF truthy(status)
                                THEN throwPoints(txId, String(status), orders)
                                ELSE {}) :
            Webhook(txId, status, failAt)

(********************* the system, each handler run as one step ************)
Conns == {1, 2}

Idle == [pc |-> "idle", groups |-> <<>>, holdId |-> NoHold, hid |-> NoHold,
         exp |-> 0, res |-> Plain("none", 0, "")]

\* no seat-key function is run on its own
NoCall == [fn |-> "none", arg |-> <<>>, val |-> <<>>]

\* the empty stores
Stores ==
    /\ seat_locks = {}
    /\ done_seatlocks = {}
    /\ orders = [o \in OrderRefs |-> NoOrder]
    /\ now = 0
    /\ res = Plain("none", 0, "")
    /\ nOps = 0
    /\ nGen = 0
    /\ nextTx = 0
    /\ tx = [c \in Conns |-> Idle]

Init == Stores /\ call = NoCall

\* the engine runs: every kind of hold request, orders of one seat or one table
Hold == HoldOver(EngineLists)

Checkout == CheckoutOver({"O1"}, {NoHold, 1}, EngineItemLists)

Next == Hold \/ ListActive \/ Tick \/ Checkout \/ PaymentWebhook

Spec == Init /\ [][Next]_vars

\* the settlement runs: every kind of order, hold requests of one seat or one table
SettleHold == HoldOver(SettleLists)

SettleCheckout == CheckoutOver(OrderRefs, {NoHold, 1}, ItemLists)

NextSettle == SettleHold \/ ListActive \/ Tick \/ SettleCheckout \/ PaymentWebhook

SpecSettle == Init /\ [][NextSettle]_vars

(********************* hold requests on two connections ********************)
(* The handler awaits every statement, so the statements of two requests   *)
(* interleave.  The transaction is opened with the store's default         *)
(* isolation and the conflict checks are plain SELECTs (no FOR UPDATE):    *)
(* they read the committed rows and lock nothing.  The upserts lock the    *)
(* rows they write until COMMIT, so the write loop and the commit of one   *)
(* request act as one step on the committed store.                         *)
(***************************************************************************)
Finished(c, response) == [tx EXCEPT ![c].pc = "done", ![c].res = response]

\* validation, beginTransaction and the conflict-check loop of one request
HoldCheck(c, seats, ttlSec, holdId) ==
    /\ tx[c].pc = "idle"
    /\ IF validateHold(seats, ttlSec).code # 200
       THEN /\ tx' = Finished(c, validateHold(seats, ttlSec))
            /\ res' = validateHold(seats, ttlSec)
       ELSE \E v \in {checkGroups(GroupsOf[seats], seat_locks, done_seatlocks, holdId, now)} :
            LET req == [pc |-> "checked", groups |-> GroupsOf[seats], holdId |-> holdId,
                        hid |-> newHoldId(holdId, nGen), exp |-> expiresAt(now, ttlSec),
                        res |-> Plain("none", 0, "")]
            IN  IF v.code # 200
                THEN \* rollback and the 409 (or the 500) answer
                     /\ tx' = [tx EXCEPT ![c] =
                                  [req EXCEPT !.pc = "done",
                                              !.res = holdResponse(req.groups, v, req.hid, req.exp)]]
                     /\ res' = holdResponse(req.groups, v, req.hid, req.exp)
                ELSE /\ tx' = [tx EXCEPT ![c] = req]
                     /\ UNCHANGED res
    /\ UNCHANGED <<seat_locks, done_seatlocks, orders, now, nOps, nGen, nextTx, call>>

\* the write loop, the commit and the 200 answer of a request whose checks passed
HoldCommit(c) ==
    /\ tx[c].pc = "checked"
    /\ seat_locks' = writeLocks(seat_locks, tx[c].groups, tx[c].hid, tx[c].exp)
    /\ res' = holdResponse(tx[c].groups, Pass, tx[c].hid, tx[c].exp)
    /\ tx' = Finished(c, holdResponse(tx[c].groups, Pass, tx[c].hid, tx[c].exp))
    /\ UNCHANGED <<done_seatlocks, orders, now, nOps, nGen, nextTx, call>>

RaceCheck ==
    \E c \in Conns, seats \in RaceLists, ttlSec \in Ttls, holdId \in 1..NumClientIds :
        /\ validateHold(seats, ttlSec).code # 200 => holdId = 1 /\ Len(seats) <= 1
        /\ HoldCheck(c, seats, ttlSec, holdId)

RaceCommit == \E c \in Conns : HoldCommit(c)

NextRace == RaceCheck \/ RaceCommit

\* one hold request per connection, on an empty store
SpecRace == Init /\ [][NextRace]_vars

(********************* create-checkout next to the webhook *****************)
\* a create-checkout request between its idempotency check and its transaction
CheckoutRequest(ref, holdId, items) ==
    [pc |-> "checkout_checked", ref |-> ref, holdId |-> holdId, items |-> items]

CheckoutFinished(c, response) ==
    [tx EXCEPT ![c] = [Idle EXCEPT !.pc = "done", !.res = response]]

\* validation and the idempotency SELECT, which runs on the pool before
\* beginTransaction and takes no lock
CheckoutCheck(c, ref, holdId, items) ==
    /\ tx[c].pc = "idle"
    /\ IF items = <<>>
       THEN /\ tx' = CheckoutFinished(c, Plain("checkout", 400, "items array is required"))
            /\ res' = Plain("checkout", 400, "items array is required")
       ELSE IF orders[ref].status \notin {"none", "pending"}
       THEN /\ tx' = CheckoutFinished(c, Plain("checkout", 409, "Order already processed."))
            /\ res' = Plain("checkout", 409, "Order already processed.")
       ELSE /\ tx' = [tx EXCEPT ![c] = CheckoutRequest(ref, holdId, items)]
            /\ UNCHANGED res
    /\ UNCHANGED <<seat_locks, done_seatlocks, orders, now, nOps, nGen, nextTx, call>>

\* the transaction: upsert with status = 'pending', reset and insert the items,
\* the gateway call, UPDATE orders SET ipg_tx_id, commit
CheckoutCommit(c, gw) ==
    /\ tx[c].pc = "checkout_checked"
    /\ LET response == IF gw = "ok"
                       THEN Plain("checkout", 200, "Successfully generate checkout link")
                       ELSE Plain("checkout", 500, "server_error")
           ref == tx[c].ref
       IN  /\ res' = response
           /\ tx' = CheckoutFinished(c, response)
           /\ IF gw = "no_tx"
              THEN \* the throw rolls the transaction back
                   UNCHANGED <<orders, nextTx>>
              ELSE /\ orders' = [orders EXCEPT ![ref] =
                                     [checkoutOrder(tx[c].holdId, tx[c].items, nextTx + 1)
                                          EXCEPT !.tickets = orders[ref].tickets]]
                   /\ nextTx' = nextTx + 1
    /\ UNCHANGED <<seat_locks, done_seatlocks, now, nOps, nGen, call>>

CheckoutRaceCheck ==
    \E c \in Conns, holdId \in {NoHold, 1}, items \in ItemLists :
        CheckoutCheck(c, "O1", holdId, items)

CheckoutRaceCommit == \E c \in Conns, gw \in GatewayReplies : CheckoutCommit(c, gw)

NextCheckoutRace == CheckoutRaceCheck \/ CheckoutRaceCommit \/ PaymentWebhook

\* one create-checkout request per connection on order O1, and the webhooks
SpecCheckoutRace == Init /\ [][NextCheckoutRace]_vars

(********************* the seat-key functions on their own *****************)
\* seat numbers of the seat lists: below the seats, the sentinel, two seats
\* and the first number above the seats of a table
PureSeatNos == {0 - 1, 0, 1, 2, TableSize + 1}

PureKeys == {SeatKey(t, n) : t \in Tables, n \in PureSeatNos}

Reverse(seq) == [i \in 1..Len(seq) |-> seq[Len(seq) + 1 - i]]

\* every list of up to MaxPureLen keys
ShortLists == UNION {[1..k -> PureKeys] : k \in 0..MaxPureLen}

\* the ten seats of a table in both orders, alone and with one more key
\* before or after them, and the two tables seat by seat
LongLists ==
    {FullList(t) : t \in Tables} \cup {Reverse(FullList(t)) : t \in Tables}
        \cup {FullList(t) \o <<k>> : t \in Tables, k \in PureKeys}
        \cup {<<k>> \o FullList(t) : t \in Tables, k \in PureKeys}
        \cup {FullList("A") \o FullList("B")}

PureLists == ShortLists \cup LongLists

InitPure ==
    /\ Stores
    /\ call \in {[fn |-> "none", arg |-> X, val |-> <<>>] : X \in PureLists}

\* normalizeGroups() on the seats of a request
Normalize ==
    /\ call.fn = "none"
    /\ call' = [call EXCEPT !.fn = "normalize", !.val = normalizeGroups(call.arg)]
    /\ UNCHANGED <<seat_locks, done_seatlocks, orders, now, res, nOps, nGen, nextTx, tx>>

\* expand(rows) on the rows of a result set
Expand ==
    /\ call.fn = "none"
    /\ call' = [call EXCEPT !.fn = "expand", !.val = expand(call.arg)]
    /\ UNCHANGED <<seat_locks, done_seatlocks, orders, now, res, nOps, nGen, nextTx, tx>>

\* expand on the rows the groups are written as
ExpandNormalized ==
    /\ call.fn = "normalize"
    /\ call' = [call EXCEPT !.fn = "expand_normalize",
                            !.val = expand(resolvedSeats(call.val))]
    /\ UNCHANGED <<seat_locks, done_seatlocks, orders, now, res, nOps, nGen, nextTx, tx>>

NextPure == Normalize \/ Expand \/ ExpandNormalized

SpecPure == InitPure /\ [][NextPure]_vars

(********************* QR helpers ******************************************)
\* the signing key of the deployment
QR_SIGNING_SECRET == "secret"

Digit(d) ==
    CASE d = 0 -> "0" [] d = 1 -> "1" [] d = 2 -> "2" [] d = 3 -> "3" [] d = 4 -> "4"
      [] d = 5 -> "5" [] d = 6 -> "6" [] d = 7 -> "7" [] d = 8 -> "8" [] d = 9 -> "9"

\* the decimal text of a number, as join() and String() give it
RECURSIVE toString(_)
toString(n) == IF n < 10 THEN Digit(n) ELSE toString(n \div 10) \o Digit(n % 10)

\* crypto.createHmac("sha256", secret).update(s).digest(): two digests are
\* equal only for the same key and the same text
hmac(secret, s) == [key |-> secret, text |-> s]

\* the url-safe base64 text of a digest
b64url(buf) == <<"b64url", buf>>

\* [orderId, orderRef, txId || "", String(iat || 0)].join("|")
signedText(fields) ==
    toString(fields.orderId) \o "|" \o fields.orderRef \o "|"
        \o (IF fields.txId = "" THEN "" ELSE fields.txId) \o "|"
        \o toString(IF fields.iat = 0 THEN 0 ELSE fields.iat)

signFields(fields) == b64url(hmac(QR_SIGNING_SECRET, signedText(fields)))

\* JSON.stringify of a payload of numbers, strings and arrays, and JSON.parse
\* of a text: a text is well formed with the value it denotes, or it is not
stringify(value) == [wellFormed |-> TRUE, value |-> value]

Garbage == [wellFormed |-> FALSE, value |-> <<>>]

buildQrJson(orderId, orderRef, txId, seats, clock) ==
    LET payload == [v |-> 1, typ |-> "eventz_ticket", orderId |-> orderId,
                    orderRef |-> orderRef,
                    txId |-> IF txId = "" THEN "" ELSE txId,
                    seats |-> seats, iat |-> clock, sig |-> <<>>]
    IN  stringify([payload EXCEPT !.sig = signFields(payload)])

QrVerdict(ok, reason, data) == [ok |-> ok, reason |-> reason, data |-> data]

verifyQrJson(jsonText) ==
    IF ~jsonText.wellFormed THEN QrVerdict(FALSE, "bad_json", <<>>)
    ELSE LET data == jsonText.value
         IN  IF data.typ # "eventz_ticket" \/ data.v # 1
             THEN QrVerdict(FALSE, "bad_type", <<>>)
             ELSE IF signFields(data) # data.sig
             THEN QrVerdict(FALSE, "bad_sig", <<>>)
             ELSE QrVerdict(TRUE, "", data)

\* the tickets of the runs: order ids, order references (chosen by the
\* client), gateway transaction ids and seat pairs
QrOrderIds == 1..MaxOps

QrOrderRefs == {"O1", "O2", "O1|"}

QrTxIds == {"", "T1", "|"}

QrSeats == {<<>>, <<<<"A", 1>>>>, <<<<"A", 2>>>>}

QrTimes == 0..MaxTime

\* the payloads that differ from p in at least one of orderId, orderRef,
\* txId, seats and iat, and carry the signature of p
Altered(p) ==
    {[p EXCEPT !.orderId = i, !.orderRef = r, !.txId = x, !.seats = s, !.iat = t] :
        i \in QrOrderIds, r \in QrOrderRefs, x \in QrTxIds, s \in QrSeats, t \in QrTimes}
        \ {p}

\* the clock of a running server is past the epoch
InitQr ==
    /\ seat_locks = {}
    /\ done_seatlocks = {}
    /\ orders = [o \in OrderRefs |-> NoOrder]
    /\ now \in 1..MaxTime
    /\ res = Plain("none", 0, "")
    /\ nOps = 0
    /\ nGen = 0
    /\ nextTx = 0
    /\ tx = [c \in Conns |-> Idle]
    /\ call = NoCall

\* a ticket is issued
BuildQr ==
    /\ call.fn = "none"
    /\ \E orderId \in QrOrderIds, orderRef \in QrOrderRefs, txId \in QrTxIds,
          seats \in QrSeats :
           call' = [fn |-> "build", arg |-> <<>>,
                    val |-> buildQrJson(orderId, orderRef, txId, seats, now)]
    /\ UNCHANGED <<seat_locks, done_seatlocks, orders, now, res, nOps, nGen, nextTx, tx>>

\* somebody without the key rewrites ticket fields of an issued ticket
Tamper ==
    /\ call.fn = "build"
    /\ \E p \in Altered(call.val.value) :
           call' = [fn |-> "tamper", arg |-> call.val, val |-> stringify(p)]
    /\ UNCHANGED <<seat_locks, done_seatlocks, orders, now, res, nOps, nGen, nextTx, tx>>

\* an issued ticket is damaged, or turned into a payload of another kind
Corrupt ==
    /\ call.fn = "build"
    /\ \E text \in {Garbage, stringify([call.val.value EXCEPT !.typ = "other"]),
                   stringify([call.val.value EXCEPT !.v = 2])} :
           call' = [fn |-> "corrupt", arg |-> call.val, val |-> text]
    /\ UNCHANGED <<seat_locks, done_seatlocks, orders, now, res, nOps, nGen, nextTx, tx>>

\* POST /api/qr/verify on the text of a QR code
VerifyQr ==
    /\ call.fn \in {"build", "tamper", "corrupt"}
    /\ call' = [fn  |-> CASE call.fn = "build" -> "verify_issued"
                          [] call.fn = "tamper" -> "verify_tampered"
                          [] call.fn = "corrupt" -> "verify_corrupt",
                \* arg is the ticket as it was issued
                arg |-> IF call.fn = "build" THEN call.val ELSE call.arg,
                val |-> verifyQrJson(call.val)]
    /\ UNCHANGED <<seat_locks, done_seatlocks, orders, now, res, nOps, nGen, nextTx, tx>>

NextQr == BuildQr \/ Tamper \/ Corrupt \/ VerifyQr

SpecQr == InitQr /\ [][NextQr]_vars

(********************* vocabulary of the properties ************************)
\* the seat numbers a request names for table t
Named(seats, t) == {seats[i].seatNo : i \in {j \in 1..Len(seats) : seats[j].tableId = t}}

\* the request asks for the whole of table t: seat 0, or the ten seats 1..10
WholeTable(seats, t) == 0 \in Named(seats, t) \/ Named(seats, t) = 1..TableSize

\* the individual seats a request asks for at table t
Wanted(seats, t) == {n \in Named(seats, t) : n > 0}

\* the request asks for some, not all, seats of table t
PartialSet(seats, t) == ~WholeTable(seats, t) /\ Wanted(seats, t) # {}

\* the request names table t with no seat that exists
NoSeats(seats, t) == Named(seats, t) # {} /\ ~WholeTable(seats, t) /\ Wanted(seats, t) = {}

Live(r) == r.expiresAt > now

Foreign(r, h) == h = NoHold \/ r.holdId # h

\* permanent allocations in the way of the request at table t
SoldAt(seats, t) ==
    IF WholeTable(seats, t)
    THEN {r \in done_seatlocks : r.tableId = t}
    ELSE {r \in done_seatlocks : r.tableId = t /\ (r.seatNo = 0 \/ r.seatNo \in Wanted(seats, t))}

\* unexpired holds of others in the way of the request at table t
HeldAt(seats, t, h) ==
    IF WholeTable(seats, t)
    THEN {r \in seat_locks : r.tableId = t /\ Live(r) /\ Foreign(r, h)}
    ELSE {r \in seat_locks : /\ r.tableId = t
                             /\ r.seatNo = 0 \/ r.seatNo \in Wanted(seats, t)
                             /\ Live(r) /\ Foreign(r, h)}

Blocked(seats, t, h) ==
    NoSeats(seats, t) \/ SoldAt(seats, t) # {} \/ HeldAt(seats, t, h) # {}

\* the tables a request names before it first names t
Before(seats, t) ==
    {seats[j].tableId : j \in {k \in 1..Len(seats) :
                                 \A i \in 1..k : seats[i].tableId # t}}

\* the request names t, and nothing stops it at a table named earlier
Decides(seats, t, h) ==
    /\ Named(seats, t) # {}
    /\ \A u \in Before(seats, t) : ~Blocked(seats, u, h)

\* the handler's answer to a request made in the current state
Answer(seats, ttlSec, holdId) ==
    requestHold(seats, ttlSec, holdId, seat_locks, done_seatlocks, now, nGen)

ValidLists == EngineLists \ {<<>>}

ValidTtls == 1..MaxTtl

IsRejection(r, message, conflicts) ==
    r.kind = "hold" /\ r.code = 409 /\ r.message = message /\ r.conflicts = conflicts

(********************* C1 **************************************************)
\* C1: of two hold requests on two connections that carry different holdIds
\* and resolve to a common seat key, exactly one is answered 200 and the
\* other is answered 409 with the common key among its conflicts.
C1_OneWinner ==
    \A a, b \in Conns :
        (/\ a # b
         /\ tx[a].pc = "done" /\ tx[b].pc = "done"
         /\ tx[a].groups # <<>> /\ tx[b].groups # <<>>
         /\ tx[a].holdId # tx[b].holdId
         /\ Range(resolvedSeats(tx[a].groups)) \cap Range(resolvedSeats(tx[b].groups)) # {})
        => \/ /\ tx[a].res.code = 200
              /\ tx[b].res.code = 409
              /\ tx[b].res.conflicts \cap Range(resolvedSeats(tx[a].groups)) # {}
           \/ /\ tx[b].res.code = 200
              /\ tx[a].res.code = 409
              /\ tx[a].res.conflicts \cap Range(resolvedSeats(tx[b].groups)) # {}

(********************* C2 **************************************************)
\* the seats an order covers: seat_no 0 stands for the ten seats of the table
Covers(o) ==
    UNION {IF it.seat_no = 0 THEN {SeatKey(it.table_id, n) : n \in 1..TableSize}
           ELSE {SeatKey(it.table_id, it.seat_no)} : it \in Range(orders[o].items)}

\* C2: no two paid orders cover the same seat.
C2_NoSeatSoldTwice ==
    \A o, p \in OrderRefs :
        (o # p /\ orders[o].status = "paid" /\ orders[p].status = "paid")
        => Covers(o) \cap Covers(p) = {}

(********************* C3 **************************************************)
\* C3: in every reachable state each (tableId, seatNo) has at most one row in
\* seat_locks and at most one row in done_seatlocks.
C3_OneRowPerKey ==
    /\ \A r, q \in seat_locks : (r.tableId = q.tableId /\ r.seatNo = q.seatNo) => r = q
    /\ \A r, q \in done_seatlocks : (r.tableId = q.tableId /\ r.seatNo = q.seatNo) => r = q

\* two holds were granted at time 0 and the store has a single row: the second
\* grant found the row of the first at its key
C3_SecondGrantOnSameKey ==
    /\ nOps = 2 /\ now = 0
    /\ \A o \in OrderRefs : orders[o].status = "none"
    /\ Cardinality(seat_locks) = 1

(********************* C4 **************************************************)
\* C4: a step that answers a hold request with a conflict (409) leaves
\* seat_locks and done_seatlocks exactly as they were.
C4_RejectedHoldChangesNothing ==
    [][(res'.kind = "hold" /\ res'.code = 409)
       => (seat_locks' = seat_locks /\ done_seatlocks' = done_seatlocks)]_vars

\* a request was rejected for the hold on (A,1) while table B is free, as a
\* request for (B,1),(A,1) is after its group of table B has passed
C4_RejectedAfterPassingGroup ==
    /\ IsRejection(res, "Some seats already held", {SeatKey("A", 1)})
    /\ \E r \in seat_locks : r.tableId = "A" /\ r.seatNo = 1 /\ Live(r)
    /\ ~\E r \in seat_locks : r.tableId = "B"
    /\ ~\E r \in seat_locks : r.tableId = "A" /\ r.seatNo # 1
    /\ done_seatlocks = {}

(********************* C5 **************************************************)
\* C5: a request for a partial seat set of table t is rejected as sold when
\* done_seatlocks has a row for seat 0 of t or for a requested seat of t.  The
\* conflicts are those rows' keys when t is the table the checks stop at; the
\* request is granted in no case.
C5_PartialSold ==
    \A t \in Tables, seats \in ValidLists :
        (PartialSet(seats, t) /\ SoldAt(seats, t) # {}) =>
            \A h \in ClientHoldIds(nGen), ttlSec \in ValidTtls :
                \A a \in {Answer(seats, ttlSec, h)} :
                    /\ a.res.code # 200
                    /\ a.locks = seat_locks
                    /\ Decides(seats, t, h) =>
                           IsRejection(a.res, "Some seats already sold",
                                       {SeatKey(r.tableId, r.seatNo) : r \in SoldAt(seats, t)})

\* a request for seats of table A was rejected as sold for seat 1
C5_SeatSold ==
    /\ res.kind = "hold" /\ res.code = 409 /\ res.message = "Some seats already sold"
    /\ SeatKey("A", 1) \in res.conflicts

(********************* C6 **************************************************)
\* C6: a request for the whole of table t (seat 0, or the seats 1..10) is
\* rejected as sold with the conflict (t, 0) when done_seatlocks has any row for
\* t, when t is the table the checks stop at; the request is granted in no case.
C6_WholeSold ==
    \A t \in Tables, seats \in ValidLists :
        (WholeTable(seats, t) /\ \E r \in done_seatlocks : r.tableId = t) =>
            \A h \in ClientHoldIds(nGen), ttlSec \in ValidTtls :
                \A a \in {Answer(seats, ttlSec, h)} :
                    /\ a.res.code # 200
                    /\ a.locks = seat_locks
                    /\ Decides(seats, t, h) =>
                           IsRejection(a.res, "Some seats already sold", {SeatKey(t, 0)})

\* a request was rejected as sold with the conflict (A,0) while only seat 1 of
\* table A is sold: it asked for the whole table
C6_WholeBlockedBySeat ==
    /\ IsRejection(res, "Some seats already sold", {SeatKey("A", 0)})
    /\ \E r \in done_seatlocks : r.tableId = "A" /\ r.seatNo = 1
    /\ ~\E r \in done_seatlocks : r.tableId = "A" /\ r.seatNo = 0

(********************* C7 **************************************************)
\* C7: with no done_seatlocks row for table t, a request for the whole of t is
\* rejected as held for (t, 0) if and only if some unexpired seat_locks row of
\* t carries another holdId (any unexpired row when the request has no holdId);
\* t being the table the checks stop at.
C7_WholeHeld ==
    \A t \in Tables, seats \in ValidLists :
        (WholeTable(seats, t) /\ ~\E r \in done_seatlocks : r.tableId = t) =>
            \A h \in ClientHoldIds(nGen), ttlSec \in ValidTtls :
                Decides(seats, t, h) =>
                    \A a \in {Answer(seats, ttlSec, h)} :
                        /\ IsRejection(a.res, "Some seats already held", {SeatKey(t, 0)})
                               <=> \E r \in seat_locks :
                                       /\ r.tableId = t /\ r.expiresAt > now
                                       /\ h = NoHold \/ r.holdId # h
                        /\ a.res.code # 200 => a.locks = seat_locks

\* a request was rejected as held with the conflict (A,0) while nothing is sold
\* and the only hold of table A is on seat 1: it asked for the whole table
C7_WholeBlockedByHeldSeat ==
    /\ IsRejection(res, "Some seats already held", {SeatKey("A", 0)})
    /\ done_seatlocks = {}
    /\ \E r \in seat_locks : r.tableId = "A" /\ r.seatNo = 1 /\ Live(r)
    /\ ~\E r \in seat_locks : r.tableId = "A" /\ r.seatNo # 1

(********************* C8 **************************************************)
\* C8: with no done_seatlocks row in its way, a request for a partial seat set
\* of table t is rejected as held if and only if an unexpired seat_locks row at
\* seat 0 of t or at a requested seat of t carries another holdId; the conflicts
\* are those rows' keys, and a hold on another seat of t never appears among
\* them; t being the table the checks stop at.
C8_PartialHeld ==
    \A t \in Tables, seats \in ValidLists :
        (PartialSet(seats, t) /\ SoldAt(seats, t) = {}) =>
            \A h \in ClientHoldIds(nGen), ttlSec \in ValidTtls :
                Decides(seats, t, h) =>
                    \A a \in {Answer(seats, ttlSec, h)} :
                        IF HeldAt(seats, t, h) # {}
                        THEN /\ IsRejection(a.res, "Some seats already held",
                                            {SeatKey(r.tableId, r.seatNo) : r \in HeldAt(seats, t, h)})
                             /\ a.locks = seat_locks
                        ELSE /\ \A k \in a.res.conflicts : k.tableId # t
                             /\ a.res.message # "Some seats already held"
                                    \/ \E u \in Tables \ {t} : Named(seats, u) # {}
                             /\ (\A u \in Tables \ {t} : Named(seats, u) = {}) => a.res.code = 200

\* a request for seats of table A was rejected as held for seat 2 alone while
\* another seat of table A is held and unexpired
C8_OtherSeatHeld ==
    /\ IsRejection(res, "Some seats already held", {SeatKey("A", 2)})
    /\ \E r \in seat_locks : r.tableId = "A" /\ r.seatNo \notin {0, 2} /\ Live(r)

(********************* C9 **************************************************)
\* holdId h holds seat n of table A, unexpired
HoldsSeat(h, n) ==
    \E r \in seat_locks : r.tableId = "A" /\ r.seatNo = n /\ r.holdId = h /\ Live(r)

\* nothing of table A is sold, and no unexpired hold other than those of h is
\* on the whole of table A or on one of the seats ns
FreeBut(h, ns) ==
    /\ ~\E r \in done_seatlocks : r.tableId = "A"
    /\ ~\E r \in seat_locks : /\ r.tableId = "A" /\ r.seatNo \in ns \cup {0}
                              /\ Live(r) /\ r.holdId # h

\* C9: while holdId H1 holds (A,1) and (A,2) unexpired, a request for
\* (A,2),(A,3) under another holdId H2 is rejected as held with (A,2) among the
\* conflicts, and a request for (A,1),(A,2) under H1 is granted; and the
\* response to a request that carries a holdId is the one it would get with
\* the rows of that holdId taken out of seat_locks.
C9_Renewal ==
    /\ \A h1, h2 \in ClientHoldIds(nGen) \ {NoHold}, ttlSec \in ValidTtls :
           (h1 # h2 /\ HoldsSeat(h1, 1) /\ HoldsSeat(h1, 2)) =>
               /\ (~\E r \in done_seatlocks : r.tableId = "A") =>
                      \A a \in {Answer(<<SeatKey("A", 2), SeatKey("A", 3)>>, ttlSec, h2)} :
                          /\ a.res.code = 409
                          /\ a.res.message = "Some seats already held"
                          /\ SeatKey("A", 2) \in a.res.conflicts
                          /\ a.locks = seat_locks
               /\ FreeBut(h1, {1, 2}) =>
                      \A a \in {Answer(<<SeatKey("A", 1), SeatKey("A", 2)>>, ttlSec, h1)} :
                          /\ a.res.code = 200
                          /\ a.res.holdId = h1
    /\ \A seats \in ValidLists, h \in ClientHoldIds(nGen) \ {NoHold}, ttlSec \in ValidTtls :
           Answer(seats, ttlSec, h).res =
               requestHold(seats, ttlSec, h, {r \in seat_locks : r.holdId # h},
                           done_seatlocks, now, nGen).res

\* the second of two grants at time 0 left (A,1) and (A,2), and nothing else,
\* held under one holdId: the first grant was to the same holdId
C9_Renewed ==
    /\ nOps = 2 /\ now = 0
    /\ \A o \in OrderRefs : orders[o].status = "none"
    /\ res.kind = "hold" /\ res.code = 200
    /\ res.seats = <<SeatKey("A", 1), SeatKey("A", 2)>>
    /\ {SeatKey(r.tableId, r.seatNo) : r \in seat_locks} = {SeatKey("A", 1), SeatKey("A", 2)}
    /\ \A r \in seat_locks : r.holdId = res.holdId

(********************* C10 *************************************************)
\* the seat keys a request resolves to: (t, 0) for a whole table, each
\* requested seat otherwise
ResolvedKeys(seats) ==
    UNION {IF WholeTable(seats, t) THEN {SeatKey(t, 0)}
           ELSE {SeatKey(t, n) : n \in Wanted(seats, t)} :
           t \in {u \in Tables : Named(seats, u) # {}}}

\* C10: a granted request returns its holdId (the one it carried, if any), the
\* seat keys it resolves to and the expiry now + ttlSec; after it seat_locks has
\* exactly one row at each of those keys, with that holdId and that expiry, and
\* its rows at other keys are as before.
C10_GrantWrites ==
    \A seats \in ValidLists, h \in ClientHoldIds(nGen), ttlSec \in ValidTtls :
        \A a \in {Answer(seats, ttlSec, h)} :
            a.res.code = 200 =>
                /\ h # NoHold => a.res.holdId = h
                /\ a.res.holdId # NoHold
                /\ a.res.expiresAt = now + ttlSec
                /\ Range(a.res.seats) = ResolvedKeys(seats)
                /\ \A k \in ResolvedKeys(seats) :
                       {r \in a.locks : r.tableId = k.tableId /\ r.seatNo = k.seatNo}
                           = {[tableId |-> k.tableId, seatNo |-> k.seatNo,
                               holdId |-> a.res.holdId, expiresAt |-> now + ttlSec]}
                /\ {r \in a.locks : SeatKey(r.tableId, r.seatNo) \notin ResolvedKeys(seats)}
                       = {r \in seat_locks : SeatKey(r.tableId, r.seatNo) \notin ResolvedKeys(seats)}

\* the grant just made to holdId 2 at time 1 is the second grant and left a
\* single row: it took over the expired row of the first
C10_TookOver ==
    /\ nOps = 2 /\ now = 1
    /\ \A o \in OrderRefs : orders[o].status = "none"
    /\ res.kind = "hold" /\ res.code = 200 /\ res.holdId = 2 /\ res.expiresAt = 2
    /\ seat_locks = {[tableId |-> "A", seatNo |-> 1, holdId |-> 2, expiresAt |-> 2]}

(********************* C11 *************************************************)
\* the keys a rejection has to name for table t: the keys of the rows in the
\* way of a partial seat set, (t, 0) for a whole table with any row in its way
BlockedKeys(seats, t, h) ==
    IF WholeTable(seats, t)
    THEN IF SoldAt(seats, t) # {} \/ HeldAt(seats, t, h) # {} THEN {SeatKey(t, 0)} ELSE {}
    ELSE {SeatKey(r.tableId, r.seatNo) : r \in SoldAt(seats, t) \cup HeldAt(seats, t, h)}

\* C11: the conflict list of a rejected request names every conflicting key
\* of every table of the request, sold or held by another holdId.
C11_EveryConflictReported ==
    \A seats \in ValidLists, h \in ClientHoldIds(nGen), ttlSec \in ValidTtls :
        \A a \in {Answer(seats, ttlSec, h)} :
            a.res.code = 409 =>
                \A t \in Tables : BlockedKeys(seats, t, h) \subseteq a.res.conflicts

(********************* C12 *************************************************)
\* a conflict key of the answer to seats is backed by an allocation: a row at
\* the key, or any row of the table when the key stands for a whole-table request
FromSold(seats, k) ==
    \E r \in done_seatlocks :
        /\ r.tableId = k.tableId
        /\ r.seatNo = k.seatNo \/ (k.seatNo = 0 /\ WholeTable(seats, k.tableId))

\* a conflict key is backed by an unexpired hold of another holdId
FromHeld(seats, k, h) ==
    \E r \in seat_locks :
        /\ r.tableId = k.tableId
        /\ r.seatNo = k.seatNo \/ (k.seatNo = 0 /\ WholeTable(seats, k.tableId))
        /\ Live(r) /\ Foreign(r, h)

\* C12: a conflict answer lists at least one key and is either 'sold', every
\* listed key backed by a done_seatlocks row, or 'held', every listed key backed
\* by an unexpired seat_locks row of another holdId and none by a done_seatlocks
\* row.
C12_SoldAndHeldApart ==
    \A seats \in ValidLists, h \in ClientHoldIds(nGen), ttlSec \in ValidTtls :
        \A a \in {Answer(seats, ttlSec, h)} :
            a.res.code = 409 =>
                /\ a.res.conflicts # {}
                /\ \/ /\ a.res.message = "Some seats already sold"
                      /\ \A k \in a.res.conflicts : FromSold(seats, k)
                   \/ /\ a.res.message = "Some seats already held"
                      /\ \A k \in a.res.conflicts :
                             FromHeld(seats, k, h) /\ ~FromSold(seats, k)

\* a request was rejected as sold for (A,1) while (A,1) is also held, unexpired
C12_SoldWhileHeld ==
    /\ IsRejection(res, "Some seats already sold", {SeatKey("A", 1)})
    /\ \E r \in seat_locks : r.tableId = "A" /\ r.seatNo = 1 /\ Live(r)

(********************* C13 *************************************************)
\* C13: a request with no seats, or with a ttlSec that is not positive, is
\* answered 422, changes no row, and is answered the same whatever the stores
\* hold.
C13_InvalidBeforeStore ==
    \A seats \in EngineLists, h \in ClientHoldIds(nGen), ttlSec \in (0 - 1)..MaxTtl :
        (seats = <<>> \/ ttlSec <= 0) =>
            \A a \in {Answer(seats, ttlSec, h)} :
                /\ a.res.kind = "hold" /\ a.res.code = 422
                /\ a.res.message = IF seats = <<>> THEN "seats[] required" ELSE "ttlSec invalid"
                /\ a.locks = seat_locks
                /\ a.res = requestHold(seats, ttlSec, h, {}, {}, 0, 0).res

\* a request with an invalid ttlSec was answered while rows are in both stores
C13_InvalidTtlAnswered ==
    /\ res.kind = "hold" /\ res.code = 422 /\ res.message = "ttlSec invalid"
    /\ seat_locks # {} /\ done_seatlocks # {}

(********************* C14 *************************************************)
\* the seat_locks rows a request meets at table t: every row of t for a whole
\* table, the rows at seat 0 and at the requested seats otherwise
InTheWay(seats, t) ==
    IF WholeTable(seats, t)
    THEN {r \in seat_locks : r.tableId = t}
    ELSE {r \in seat_locks : r.tableId = t /\ (r.seatNo = 0 \/ r.seatNo \in Wanted(seats, t))}

\* nothing is sold in the way of the request, and no hold in its way is
\* unexpired (expires_at is not after now)
OnlyExpiredInTheWay(seats) ==
    \A t \in Tables :
        Named(seats, t) # {} =>
            /\ ~NoSeats(seats, t)
            /\ SoldAt(seats, t) = {}
            /\ \A r \in InTheWay(seats, t) : ~Live(r)

\* C14 as stated: a request that meets only expired holds is granted and ends
\* as the owner of every row it met.
C14_ExpiredRowsTakenOver ==
    \A seats \in ValidLists, h \in ClientHoldIds(nGen), ttlSec \in ValidTtls :
        OnlyExpiredInTheWay(seats) =>
            \A a \in {Answer(seats, ttlSec, h)} :
                /\ a.res.code = 200
                /\ \A t \in Tables : \A r \in InTheWay(seats, t) :
                       \E q \in a.locks : /\ q.tableId = r.tableId /\ q.seatNo = r.seatNo
                                          /\ q.holdId = a.res.holdId
                                          /\ q.expiresAt = now + ttlSec

\* C14: a request that meets only expired holds is granted, whoever owns them
\* and with no sweep in between; it ends as the owner of the row at each key it
\* resolves to, and every row at another key is left as it was.
C14_ExpiredNeverBlocks ==
    \A seats \in ValidLists, h \in ClientHoldIds(nGen), ttlSec \in ValidTtls :
        OnlyExpiredInTheWay(seats) =>
            \A a \in {Answer(seats, ttlSec, h)} :
                /\ a.res.code = 200
                /\ \A k \in ResolvedKeys(seats) :
                       \E q \in a.locks : /\ q.tableId = k.tableId /\ q.seatNo = k.seatNo
                                          /\ q.holdId = a.res.holdId
                                          /\ q.expiresAt = now + ttlSec
                /\ \A r \in seat_locks :
                       SeatKey(r.tableId, r.seatNo) \notin ResolvedKeys(seats) => r \in a.locks

\* the whole of table A was granted while an expired hold of another holdId
\* is on seat 1: the row of seat 1 is still there, with its owner
C14_TableOverExpiredSeat ==
    /\ res.kind = "hold" /\ res.code = 200 /\ res.seats = <<SeatKey("A", 0)>>
    /\ \E r \in seat_locks : r.tableId = "A" /\ r.seatNo = 0 /\ r.holdId = res.holdId /\ Live(r)
    /\ \E r \in seat_locks : r.tableId = "A" /\ r.seatNo = 1 /\ r.holdId # res.holdId /\ ~Live(r)

(********************* C15 *************************************************)
\* a step of GET /api/locks: the response is a listing and the clock stands
ListStep == res'.kind = "locks" /\ now' = now

\* C15: a listing deletes exactly the seat_locks rows whose expiry is before
\* now, so none is left after it, and every seat it returns is covered by an
\* unexpired hold or by an allocation (at the seat or at seat 0 of its table).
C15_SweepThenList ==
    [][ListStep =>
          /\ seat_locks' = {r \in seat_locks : r.expiresAt >= now}
          /\ \A r \in seat_locks' : ~(r.expiresAt < now')
          /\ done_seatlocks' = done_seatlocks
          /\ \A k \in Range(res'.locks) :
                 \/ \E r \in seat_locks : /\ r.tableId = k.tableId
                                          /\ r.seatNo \in {0, k.seatNo}
                                          /\ r.expiresAt > now
                 \/ \E r \in done_seatlocks : /\ r.tableId = k.tableId
                                              /\ r.seatNo \in {0, k.seatNo}]_vars

\* a hold was granted and never released, no order was made, and the last
\* listing, two seconds after the start, found nothing and left nothing
C15_ExpiredHoldSwept ==
    /\ res.kind = "locks" /\ res.locks = <<>>
    /\ nOps >= 1 /\ now = 2
    /\ \A o \in OrderRefs : orders[o].status = "none"
    /\ seat_locks = {}

(********************* C16 *************************************************)
\* the seats occupied in the current state: an unexpired hold or an allocation
\* is at the seat or at seat 0 of its table
Covered(t, n) ==
    \/ \E r \in seat_locks : r.tableId = t /\ r.seatNo \in {0, n} /\ r.expiresAt > now
    \/ \E r \in done_seatlocks : r.tableId = t /\ r.seatNo \in {0, n}

\* the seat numbers in use: those of a table, and those of the rows
SeatNumbers ==
    (1..TableSize) \cup {r.seatNo : r \in seat_locks \cup done_seatlocks}

OccupiedSeats ==
    {k \in {SeatKey(t, n) : t \in Tables, n \in SeatNumbers \ {0}} : Covered(k.tableId, k.seatNo)}

\* C16: the seats a listing returns are exactly the occupied seats.
C16_ListIsOccupied ==
    [][ListStep => Range(res'.locks) = OccupiedSeats]_vars

\* a listing returned the ten seats of table A and seat 1 of table B
C16_ListedTableAndSeat ==
    /\ res.kind = "locks"
    /\ Range(res.locks) = {SeatKey("A", n) : n \in 1..TableSize} \cup {SeatKey("B", 1)}

(********************* C17 *************************************************)
\* the two ways to ask for the whole of table t
WholeTableLists(t) == {<<SeatKey(t, 0)>>, FullList(t)}

\* C17: a granted request for the whole of table t, made as seat 0 or as the
\* seats 1..10, stores the single row (t, 0): it creates or changes no row at a
\* seat 1..10, and a listing that follows returns the ten seats (t,1)..(t,10)
\* for table t; on a table that had no hold before, the row (t, 0) is the only
\* row of the table and the listing has each of the ten seats once.
C17_WholeTableOneRow ==
    \A t \in Tables : \A seats \in WholeTableLists(t) :
        \A h \in ClientHoldIds(nGen), ttlSec \in ValidTtls :
            \A a \in {Answer(seats, ttlSec, h)} :
                a.res.code = 200 =>
                    \A row \in {[tableId |-> t, seatNo |-> 0,
                                 holdId |-> a.res.holdId, expiresAt |-> now + ttlSec]} :
                    \A l \in {listLocks(a.locks, done_seatlocks, now)} :
                        /\ a.res.seats = <<SeatKey(t, 0)>>
                        /\ row \in a.locks
                        /\ a.locks \ seat_locks \subseteq {row}
                        /\ {r \in a.locks : r.tableId = t /\ r.seatNo # 0}
                               = {r \in seat_locks : r.tableId = t /\ r.seatNo # 0}
                        /\ {k \in Range(l) : k.tableId = t}
                               = {SeatKey(t, n) : n \in 1..TableSize}
                        /\ (~\E r \in seat_locks : r.tableId = t) =>
                               /\ {r \in a.locks : r.tableId = t} = {row}
                               /\ SelectSeq(l, LAMBDA k : k.tableId = t)
                                      = [n \in 1..TableSize |-> SeatKey(t, n)]

\* table B is held as the single row (B,0) and the listing that followed
\* returned its ten seats, each once, and nothing else
C17_TableBListed ==
    /\ res.kind = "locks"
    /\ res.locks = [n \in 1..TableSize |-> SeatKey("B", n)]
    /\ \E r \in seat_locks : seat_locks = {r} /\ r.tableId = "B" /\ r.seatNo = 0 /\ Live(r)
    /\ done_seatlocks = {}

(********************* C18 *************************************************)
\* C18: when the paid webhook of a pending order has been processed, a second
\* delivery of it changes nothing: orders, tickets, seat_locks and
\* done_seatlocks after the second delivery are those after the first.
C18_SecondDeliveryNoOp ==
    \A txId \in 1..MaxOps :
        (\E o \in orderOfTx(orders, txId) : orders[o].status = "pending") =>
            \A first \in {settleOrder(txId, "1", orders, seat_locks, done_seatlocks)} :
                /\ \E o \in orderOfTx(orders, txId) : first.orders[o].status = "paid"
                /\ settleOrder(txId, "1", first.orders, first.locks, first.done) = first

\* order O1 is paid, with a ticket and an allocation, and the last request
\* was a webhook
C18_PaidOnce ==
    /\ res.kind = "webhook"
    /\ orders["O1"].status = "paid" /\ orders["O1"].tickets = 1
    /\ \E r \in done_seatlocks : r.orderId = "O1"

(********************* C19 *************************************************)
\* the keys of an order's items: the seat of a seat item, seat 0 of the table
\* of a whole-table item
ItemKeys(order) ==
    {IF it.item_type = "vipTable" THEN SeatKey(it.table_id, 0)
     ELSE SeatKey(it.table_id, it.seat_no) : it \in Range(order.items)}

\* C19: the paid webhook of a pending order leaves an allocation at the key of
\* each of its items, and every allocation it creates is at one of those keys
\* and carries the order's id.
C19_AllocationsAtItemKeys ==
    \A txId \in 1..MaxOps : \A o \in orderOfTx(orders, txId) :
        orders[o].status = "pending" =>
            \A out \in {settleOrder(txId, "1", orders, seat_locks, done_seatlocks)} :
                /\ out.orders[o].status = "paid"
                /\ \A k \in ItemKeys(orders[o]) :
                       \E r \in out.done : r.tableId = k.tableId /\ r.seatNo = k.seatNo
                /\ \A r \in out.done \ done_seatlocks :
                       /\ SeatKey(r.tableId, r.seatNo) \in ItemKeys(orders[o])
                       /\ r.orderId = o
                /\ done_seatlocks \subseteq out.done

\* order O1 is paid for table A as a whole and done_seatlocks is its single row
C19_TableAllocated ==
    /\ orders["O1"].status = "paid"
    /\ orders["O1"].items = <<[item_type |-> "vipTable", table_id |-> "A", seat_no |-> 0]>>
    /\ done_seatlocks = {[orderId |-> "O1", tableId |-> "A", seatNo |-> 0]}

(********************* C20 *************************************************)
\* C20: a done_seatlocks row never changes: at a key that has a row, every
\* step leaves that row, with its orderId, as the only row of the key.
C20_FirstWriterWins ==
    [][\A r \in done_seatlocks : \A q \in done_seatlocks' :
           (q.tableId = r.tableId /\ q.seatNo = r.seatNo) => q = r]_vars

\* both orders are paid for the same item and the single allocation is O1's
\* or O2's: the webhook of the other met the row
C20_SecondOrderMetRow ==
    /\ orders["O1"].status = "paid" /\ orders["O2"].status = "paid"
    /\ orders["O1"].items = orders["O2"].items
    /\ Cardinality(done_seatlocks) = 1

(********************* C21 *************************************************)
\* C21: the paid webhook of a pending order that carries a hold id leaves no
\* seat_locks row of that hold id, whatever its table and seat, and leaves the
\* rows of every other hold id as they were.
C21_HoldReleased ==
    \A txId \in 1..MaxOps : \A o \in orderOfTx(orders, txId) :
        (orders[o].status = "pending" /\ orders[o].hold_id # NoHold) =>
            \A out \in {settleOrder(txId, "1", orders, seat_locks, done_seatlocks)} :
                /\ out.orders[o].status = "paid"
                /\ \A r \in out.locks : r.holdId # orders[o].hold_id
                /\ \A r \in seat_locks : r.holdId # orders[o].hold_id => r \in out.locks
                /\ out.locks \subseteq seat_locks

\* order O1, pending for table A, carries hold id 1; hold 1 owns a row of
\* table B, and the paid webhook of O1 removes rows
C21_HoldOfOtherTable ==
    /\ orders["O1"].status = "pending" /\ orders["O1"].hold_id = 1
    /\ \A it \in Range(orders["O1"].items) : it.table_id = "A"
    /\ \E r \in seat_locks : r.holdId = 1 /\ r.tableId = "B"
    /\ settleOrder(orders["O1"].ipg_tx_id, "1", orders, seat_locks,
                   done_seatlocks).locks # seat_locks

(********************* C22 *************************************************)
\* the statements run without a throw give the stores the transaction commits
StatementsSettle ==
    \A txId \in 1..MaxOps, status_code \in StatusCodes : \A o \in orderOfTx(orders, txId) :
        orders[o].status = "pending" =>
            executeAll(statements(orders[o], status_code), o,
                       Settled(orders, seat_locks, done_seatlocks))
                = settleOrder(txId, status_code, orders, seat_locks, done_seatlocks)

\* C22: when a statement of the paid webhook of a pending order throws (the
\* update to paid, the payment, a ticket, an allocation, the deletion of the
\* holds, the commit), done_seatlocks and seat_locks are as before, the order
\* is pending with the tickets it had, and a later paid webhook settles it.
C22_PromoteAtomic ==
    \A txId \in 1..MaxOps : \A o \in orderOfTx(orders, txId) :
        orders[o].status = "pending" =>
            \A failAt \in throwPoints(txId, "1", orders) :
                \A out \in {settleOrThrow(txId, "1", orders, seat_locks, done_seatlocks,
                                           failAt)} :
                    /\ out.done = done_seatlocks
                    /\ out.locks = seat_locks
                    /\ out.orders[o].status = "pending"
                    /\ out.orders[o].tickets = orders[o].tickets
                    /\ settleOrder(txId, "1", out.orders, out.locks, out.done)
                           .orders[o].status = "paid"

\* order O1 is pending for seat (A,1) under hold 1, hold 1 owns a row, and
\* the deletion of the holds throws after the order was marked paid and its
\* ticket and allocation were inserted
C22_ThrowAfterAllocation ==
    /\ orders["O1"].status = "pending" /\ orders["O1"].hold_id = 1
    /\ \E r \in seat_locks : r.holdId = 1
    /\ \E failAt \in throwPoints(orders["O1"].ipg_tx_id, "1", orders) :
           \E w \in {executeAll(SubSeq(statements(orders["O1"], "1"), 1, failAt - 1), "O1",
                                Settled(orders, seat_locks, done_seatlocks))} :
               /\ statements(orders["O1"], "1")[failAt].op = "delete_holds"
               /\ w.orders["O1"].status = "paid"
               /\ w.orders["O1"].tickets = orders["O1"].tickets + 1
               /\ w.done # done_seatlocks

C24_ReleaseOnFailure ==
    \A txId \in 1..MaxOps, status \in PayloadStatuses \ {1} :
        \A o \in orderOfTx(orders, txId) :
            orders[o].status = "pending" =>
                \A out \in {paymentWebhook(txId, status, orders, seat_locks,
                                            done_seatlocks)} :
                    /\ out.orders[o].status = "failed"
                    /\ out.locks = {r \in seat_locks :
                                        \/ orders[o].hold_id = NoHold
                                        \/ r.holdId # orders[o].hold_id}
                    /\ out.done = done_seatlocks

\* the same for the payloads that pass the validation
C24_ReleaseOnValidFailure ==
    \A txId \in 1..MaxOps, status \in {v \in PayloadStatuses \ {1} : truthy(v)} :
        \A o \in orderOfTx(orders, txId) :
            orders[o].status = "pending" =>
                \A out \in {paymentWebhook(txId, status, orders, seat_locks,
                                            done_seatlocks)} :
                    /\ out.orders[o].status = "failed"
                    /\ out.locks = {r \in seat_locks :
                                        \/ orders[o].hold_id = NoHold
                                        \/ r.holdId # orders[o].hold_id}
                    /\ out.done = done_seatlocks

(********************* C25 *************************************************)
\* C25: no step (hold request, listing with its sweep, checkout, webhook of
\* either outcome, clock) removes a done_seatlocks row: every row of
\* done_seatlocks is a row of done_seatlocks after the step.
C25_AllocationsStay ==
    [][\A r \in done_seatlocks : r \in done_seatlocks']_vars

\* O1 was paid for a seat of table A, O2 was then paid for table A as a
\* whole (or the other way round), a listing followed, and both rows are there
C25_SeatAndTableRows ==
    /\ res.kind = "locks"
    /\ orders["O1"].status = "paid" /\ orders["O2"].status = "paid"
    /\ \E r \in done_seatlocks : r.tableId = "A" /\ r.seatNo = 0
    /\ \E r \in done_seatlocks : r.tableId = "A" /\ r.seatNo = 1

GroupOf(groups, t) == {groups[i] : i \in {j \in 1..Len(groups) : groups[j].tableId = t}}

FullGroup(t) == [tableId |-> t, mode |-> "full", seats |-> <<0>>]

\* C27 as stated: for every table whose requested seat numbers contain 0 or
\* contain all of 1..10, the group normalize makes is the full group, with
\* the single seat 0.
C27_FullWhenAllTenNamed ==
    call.fn = "normalize" =>
        \A t \in Tables :
            (0 \in Named(call.arg, t) \/ 1..TableSize \subseteq Named(call.arg, t)) =>
                GroupOf(call.val, t) = {FullGroup(t)}

\* C27 as amended: for every table whose requested seat numbers contain 0 or
\* are exactly the numbers 1..10, in any order and with any repetition, the
\* group normalize makes is the full group, with the single seat 0.
C27_FullWhenExactlyTen ==
    call.fn = "normalize" =>
        \A t \in Tables :
            (0 \in Named(call.arg, t) \/ Named(call.arg, t) = 1..TableSize) =>
                GroupOf(call.val, t) = {FullGroup(t)}

\* normalize was run on the ten seats of table A in descending order and gave
\* the full group
C27_TenSeatsDescending ==
    /\ call.fn = "normalize"
    /\ call.arg = Reverse(FullList("A"))
    /\ call.val = <<FullGroup("A")>>

(********************* C28 *************************************************)
\* C28: every table a request names gets one group; a group that is not the
\* full group is partial and its seats are the positive seat numbers the
\* request names for the table, each once, in ascending order.
C28_PartialSortedPositive ==
    call.fn = "normalize" =>
        \A t \in Tables :
            /\ Named(call.arg, t) # {} =>
                   Cardinality({i \in 1..Len(call.val) : call.val[i].tableId = t}) = 1
            /\ \A g \in GroupOf(call.val, t) :
                   g # FullGroup(t) =>
                       /\ g.mode = "partial"
                       /\ Range(g.seats) = {n \in Named(call.arg, t) : n > 0}
                       /\ \A i, j \in 1..Len(g.seats) : i < j => g.seats[i] < g.seats[j]

\* normalize was run on seat 2, seat -1 and seat 1 of table A, in this order
C28_UnsortedWithNegative ==
    /\ call.fn = "normalize"
    /\ call.arg = <<SeatKey("A", 2), SeatKey("A", 0 - 1), SeatKey("A", 1)>>
    /\ call.val = <<[tableId |-> "A", mode |-> "partial", seats |-> <<1, 2>>]>>

(********************* C29 *************************************************)
\* the number of rows a row stands for in the view
Width(r) == IF r.seatNo = 0 THEN 10 ELSE 1

\* the number of rows the first k rows stand for
RECURSIVE Offset(_, _)
Offset(rows, k) == IF k = 0 THEN 0 ELSE Offset(rows, k - 1) + Width(rows[k])

\* C29: the result of expand is, row by row of its input and in the order of
\* the input, the ten rows (tableId, 1) .. (tableId, 10) for a row with
\* seatNo 0 and the row itself (same tableId, same seatNo) for any other row,
\* and nothing else.
C29_ExpandRowByRow ==
    call.fn = "expand" =>
        /\ Len(call.val) = Offset(call.arg, Len(call.arg))
        /\ \A i \in 1..Len(call.arg) :
               IF call.arg[i].seatNo = 0
               THEN \A n \in 1..10 :
                        call.val[Offset(call.arg, i - 1) + n]
                            = [tableId |-> call.arg[i].tableId, seatNo |-> n]
               ELSE call.val[Offset(call.arg, i - 1) + 1]
                        = [tableId |-> call.arg[i].tableId, seatNo |-> call.arg[i].seatNo]

\* expand was run on seat 2 of table B, table A as a whole and seat 11 of
\* table A, and gave twelve rows
C29_TableBetweenSeats ==
    /\ call.fn = "expand"
    /\ call.arg = <<SeatKey("B", 2), SeatKey("A", 0), SeatKey("A", 11)>>
    /\ Len(call.val) = 12
    /\ call.val[1] = SeatKey("B", 2) /\ call.val[2] = SeatKey("A", 1)
    /\ call.val[12] = SeatKey("A", 11)

(********************* C30 *************************************************)
\* every table of the list is asked for as seat 0, or by seats within 1..10
\* (all ten of them or some)
WellFormed(X) ==
    \A t \in Tables :
        \/ Named(X, t) = {}
        \/ Named(X, t) = {0}
        \/ Named(X, t) \subseteq 1..10

\* the list names no key twice, the keys of a table stand together and their
\* seat numbers ascend
Tidy(X) ==
    \A i, j \in 1..Len(X) :
        (i < j /\ X[i].tableId = X[j].tableId) =>
            /\ X[i].seatNo < X[j].seatNo
            /\ \A k \in i..j : X[k].tableId = X[i].tableId

\* C30 as stated: for every well-formed seat list X, expand(normalize(X)) is
\* the list expand(X).
C30_RoundTripSameList ==
    (call.fn = "expand_normalize" /\ WellFormed(call.arg)) =>
        call.val = expand(call.arg)

\* C30 as amended: for every well-formed seat list X, expand(normalize(X))
\* and expand(X) hold the same rows; they are the same list when X names no
\* key twice, keeps the keys of a table together and lists them in ascending
\* order.
C30_RoundTripSameRows ==
    (call.fn = "expand_normalize" /\ WellFormed(call.arg)) =>
        /\ Range(call.val) = Range(expand(call.arg))
        /\ Tidy(call.arg) => call.val = expand(call.arg)

\* the round trip was run on the ten seats of table A in descending order and
\* gave them in ascending order
C30_DescendingComesBackAscending ==
    /\ call.fn = "expand_normalize"
    /\ call.arg = Reverse(FullList("A"))
    /\ call.val = FullList("A")

(********************* C31 *************************************************)
\* C31: in every reachable state no table has a done_seatlocks row at seat 0
\* together with a done_seatlocks row at one of the seats 1..10.
C31_TableSoldOneWay ==
    \A t \in Tables :
        ~ /\ \E r \in done_seatlocks : r.tableId = t /\ r.seatNo = 0
          /\ \E r \in done_seatlocks : r.tableId = t /\ r.seatNo \in 1..10

(********************* C32 *************************************************)
\* C32: in every reachable state there is no unexpired seat_locks row and
\* done_seatlocks row of the same table whose seat numbers are equal or one
\* of which is at seat 0.
C32_NoHoldOnSoldSeat ==
    \A l \in seat_locks : \A d \in done_seatlocks :
        (l.expiresAt > now /\ l.tableId = d.tableId) =>
            ~(l.seatNo = d.seatNo \/ l.seatNo = 0 \/ d.seatNo = 0)

(********************* C33 *************************************************)
\* C33: with each hold request run as one step, no step gives the seat_locks
\* row of a key another holdId while the row is unexpired: where the holdId
\* at a key changes, the expiry of the row it replaces is not after now.
C33_LiveRowKeepsOwner ==
    [][\A r \in seat_locks : \A q \in seat_locks' :
           (q.tableId = r.tableId /\ q.seatNo = r.seatNo /\ q.holdId # r.holdId)
               => ~(r.expiresAt > now)]_vars

\* at time 1 table A as a whole was granted to holdId 1; the only other grant
\* went to a generated holdId at time 0 and its row, expired at 1, is the one
\* that was taken over
C33_ExpiredTableTakenOver ==
    /\ nOps = 2 /\ nGen = 1 /\ now = 1
    /\ \A o \in OrderRefs : orders[o].status = "none"
    /\ res.kind = "hold" /\ res.code = 200 /\ res.holdId = 1
    /\ seat_locks = {[tableId |-> "A", seatNo |-> 0, holdId |-> 1, expiresAt |-> 2]}

(********************* C34 *************************************************)
\* C34: with each hold request run as one step, in every reachable state an
\* unexpired seat_locks row at seat 0 of a table and an unexpired seat_locks
\* row at one of the seats 1..10 of that table carry the same holdId.
C34_TableAndSeatSameHolder ==
    \A r, q \in seat_locks :
        (/\ r.tableId = q.tableId /\ r.seatNo = 0 /\ q.seatNo \in 1..10
         /\ r.expiresAt > now /\ q.expiresAt > now)
            => r.holdId = q.holdId

\* a holdId holds seat 1 of table A and, by a later grant, table A as a whole,
\* both unexpired
C34_SeatThenTable ==
    /\ res.kind = "hold" /\ res.code = 200 /\ res.seats = <<SeatKey("A", 0)>>
    /\ \E r \in seat_locks : r.tableId = "A" /\ r.seatNo = 0 /\ r.expiresAt > now
    /\ \E q \in seat_locks : q.tableId = "A" /\ q.seatNo = 1 /\ q.expiresAt > now

(********************* C35 *************************************************)
\* the keys at which holdId h owns an unexpired row of locks
LiveKeysOf(locks, h) ==
    {SeatKey(r.tableId, r.seatNo) : r \in {x \in locks : x.holdId = h /\ x.expiresAt > now}}

\* C35 as stated: after a granted request that carries holdId h, the keys at
\* which h owns an unexpired row are exactly the seat keys the request
\* returned.
C35_OwnsExactlyReturnedKeys ==
    \A seats \in ValidLists, h \in ClientHoldIds(nGen) \ {NoHold}, ttlSec \in ValidTtls :
        \A a \in {Answer(seats, ttlSec, h)} :
            a.res.code = 200 => LiveKeysOf(a.locks, h) = Range(a.res.seats)

\* C35 as amended: after a granted request that carries holdId h, the keys at
\* which h owns an unexpired row are the seat keys the request returned
\* together with the keys at which h owned an unexpired row before it.
C35_OwnsReturnedAndEarlierKeys ==
    \A seats \in ValidLists, h \in ClientHoldIds(nGen) \ {NoHold}, ttlSec \in ValidTtls :
        \A a \in {Answer(seats, ttlSec, h)} :
            a.res.code = 200 =>
                LiveKeysOf(a.locks, h) = Range(a.res.seats) \cup LiveKeysOf(seat_locks, h)

\* holdId 1 was granted (A,2),(A,3) after (A,1),(A,2) and holds the three
\* seats, unexpired
C35_EarlierSeatStillHeld ==
    /\ res.kind = "hold" /\ res.code = 200 /\ res.holdId = 1
    /\ res.seats = <<SeatKey("A", 2), SeatKey("A", 3)>>
    /\ LiveKeysOf(seat_locks, 1) = {SeatKey("A", 1), SeatKey("A", 2), SeatKey("A", 3)}

(********************* C36 *************************************************)
\* C36: the list a listing returns names no (tableId, seatNo) twice.
C36_ListWithoutRepeats ==
    res.kind = "locks" =>
        \A i, j \in 1..Len(res.locks) :
            (i # j) => ~(/\ res.locks[i].tableId = res.locks[j].tableId
                         /\ res.locks[i].seatNo = res.locks[j].seatNo)

(********************* C37 *************************************************)
\* C37: once an order is paid, no step changes its status or its line items.
C37_PaidOrderUntouched ==
    [][\A ref \in OrderRefs :
          orders[ref].status = "paid" =>
              /\ orders'[ref].status = "paid"
              /\ orders'[ref].items = orders[ref].items]_vars

(********************* C38 *************************************************)
\* C38: a hold request that names some table only with seat numbers below 0
\* is answered with a failure, and the TemporaryHold rows stay as they were.
C38_NoSeatsGrantsNothing ==
    \A seats \in EngineLists, ttlSec \in Ttls, h \in ClientHoldIds(nGen) :
        (\E t \in Tables : NoSeats(seats, t)) =>
            \A a \in {Answer(seats, ttlSec, h)} :
                /\ a.res.code # 200
                /\ a.locks = seat_locks

\* the request for seat B1 and a seat -1 of table A was answered hold_failed
\* although table B was free
C38_FreeSeatNotHeld ==
    /\ res.kind = "hold"
    /\ res.code = 500
    /\ res.message = "hold_failed"
    /\ \A r \in seat_locks : r.tableId # "B"
    /\ \A r \in done_seatlocks : r.tableId # "B"

(********************* C39 *************************************************)
\* C39: the verification accepts an issued ticket as it is, and answers
\* bad_sig to a ticket in which orderId, orderRef, txId, seats or iat was
\* changed while the signature was kept.
C39_QrIntegrity ==
    /\ call.fn = "verify_issued" => call.val.ok
    /\ call.fn = "verify_tampered" => (~call.val.ok /\ call.val.reason = "bad_sig")

====
